---- MODULE Spec2Model ----
(***************************************************************************)
(* Model of the quiz client controller of static/script.js: the page-scoped *)
(* state (currentQuestion, isLoading), the DOM elements the script writes,  *)
(* the requests in flight and the image loads with their timers.            *)
(* Every event handler (click, settled promise chain, image event, timer)   *)
(* runs to completion on the single UI thread and is one action.            *)
(***************************************************************************)
EXTENDS Integers, Sequences, FiniteSets, TLC

\* ---------------------------------------------------------------- bounds
MaxOptions == 2          \* longest option list a question carries
MaxHistory == 2          \* longest history list the server returns
MaxTotal == 1            \* largest total_questions the server reports
MaxHistoryRequests == 2  \* /get_history requests in flight at once
MaxImageLoads == 2       \* image loads whose events are still pending
MaxDispatched == 2       \* submissions in flight at once under dispatched events

\* ---------------------------------------------------------------- data
OptionTexts == {"A", "B"}
HintTexts == {"", "H"}
ImageUrls == {"", "img"}

RECURSIVE SeqsUpTo(_, _)
SeqsUpTo(S, n) ==
    IF n = 0 THEN {<<>>}
    ELSE LET shorter == SeqsUpTo(S, n - 1)
         IN  shorter \cup {Append(s, x) : s \in shorter, x \in S}

OptionLists == SeqsUpTo(OptionTexts, MaxOptions) \ {<<>>}

\* payload of a successful GET /get_question
Questions ==
    [question : {"Q"}, options : OptionLists, hint : HintTexts, image : ImageUrls]

ScoreData ==
    {[score |-> s, total_questions |-> t] : s \in 0..MaxTotal, t \in 0..MaxTotal} \ {[score |-> 1, total_questions |-> 0]}

\* payload of a successful POST /check_answer
CheckData ==
    {[is_correct |-> b, correct_answer |-> c, score |-> sc.score,
      total_questions |-> sc.total_questions] :
        b \in BOOLEAN, c \in OptionTexts, sc \in ScoreData}

HistoryItems ==
    {[question |-> "Q", user_answer |-> a, correct_answer |-> "A",
      is_correct |-> (a = "A")] : a \in OptionTexts}

\* payload of a successful GET /get_history
HistoryData ==
    {[history |-> h, score |-> sc.score, total_questions |-> sc.total_questions] :
        h \in SeqsUpTo(HistoryItems, MaxHistory), sc \in ScoreData}

FailureKinds == {"rejected", "notOk", "errorField"}

VARIABLES
    currentQuestion,   \* <<>> for null, <<q>> for a question
    isLoading,
    questionRequests,  \* GET /get_question requests in flight
    checkRequests,     \* selectedOption of each POST /check_answer in flight
    historyRequests,   \* GET /get_history requests in flight
    disabled,          \* disabled property of startButton, hintButton, nextButton
    nextButtonText,
    hidden,            \* 'hidden' class of the three containers and of hintText
    questionText,
    hintText,
    resultText,
    options,           \* the option buttons in optionsContainer
    scoreDisplay,
    historyList,
    imageContainer,    \* children of imageContainer, in order
    images,            \* per image load: request state, timer, queued error
    server             \* the session's score and the responses it has produced

netVars == <<questionRequests, checkRequests, historyRequests>>
quizVars == <<currentQuestion, isLoading>>
domVars == <<disabled, nextButtonText, hidden, questionText, hintText,
             resultText, options, scoreDisplay>>
imageVars == <<imageContainer, images>>
vars == <<quizVars, netVars, domVars, historyList, imageVars, server>>

\* ---------------------------------------------------------------- helpers
Placeholder == [kind |-> "placeholder", id |-> 0]
Loader(id) == [kind |-> "loader", id |-> id]
Img(id) == [kind |-> "img", id |-> id]

Contains(container, el) == \E i \in DOMAIN container : container[i] = el

RemoveChild(container, el) ==
    SelectSeq(container, LAMBDA x : x # el)

showImagePlaceholder == <<Placeholder>>

NoText == [msg |-> "", answer |-> ""]
ErrorText == [msg |-> "An error occurred. Please try again.", answer |-> ""]

disableButtons ==
    [startButton |-> TRUE, hintButton |-> TRUE, nextButton |-> TRUE]

enableButtonsWithNext ==
    [startButton |-> FALSE, hintButton |-> FALSE, nextButton |-> FALSE]

enableButtons ==
    [startButton |-> FALSE, hintButton |-> FALSE, nextButton |-> TRUE]

createOptionButtons(list) ==
    [i \in DOMAIN list |-> [text |-> list[i], disabled |-> FALSE, classes |-> {}]]

disableOptionsNoop(opts) == opts

disableOptions(opts) ==
    [i \in DOMAIN opts |-> [opts[i] EXCEPT !.disabled = TRUE]]


CorrectMsg == "Correct! The answer is"
IncorrectMsg == "Incorrect. The correct answer is"

\* resultMessage of showResultFeedback: the template and the answer it embeds
resultMessage(data) ==
    IF data.is_correct
    THEN [msg |-> CorrectMsg, answer |-> data.correct_answer]
    ELSE [msg |-> IncorrectMsg, answer |-> data.correct_answer]

\* the forEach of showResultFeedback over the option buttons
showResultFeedback(opts, data, selectedOption) ==
    [i \in DOMAIN opts |->
        [text |-> opts[i].text,
         disabled |-> TRUE,
         classes |->
            IF opts[i].text = data.correct_answer
            THEN opts[i].classes \cup {"correct-option"}
            ELSE IF opts[i].text = selectedOption /\ ~data.is_correct
                 THEN opts[i].classes \cup {"incorrect-option"}
                 ELSE opts[i].classes]]

highlightAnswersBoth(opts, correctAnswer, selectedOption) ==
    [i \in DOMAIN opts |->
        [opts[i] EXCEPT !.classes =
            (IF opts[i].text = correctAnswer
             THEN @ \cup {"correct-option"} ELSE @)
            \cup
            (IF opts[i].text = selectedOption
             THEN {"incorrect-option"} ELSE {})]]

highlightAnswersSwapped(opts, correctAnswer, selectedOption) ==
    [i \in DOMAIN opts |->
        [opts[i] EXCEPT !.classes =
            IF opts[i].text = selectedOption
            THEN @ \cup {"correct-option"}
            ELSE IF opts[i].text = correctAnswer
                 THEN @ \cup {"incorrect-option"}
                 ELSE @]]

highlightAnswers(opts, correctAnswer, selectedOption) ==
    [i \in DOMAIN opts |->
        [opts[i] EXCEPT !.classes =
            IF opts[i].text = correctAnswer
            THEN @ \cup {"correct-option"}
            ELSE IF opts[i].text = selectedOption
                 THEN @ \cup {"incorrect-option"}
                 ELSE @]]

hasHintAnyQuestion(cq) == cq # <<>>

\* the negation of showHint's early return, !currentQuestion?.hint
hasHint(cq) == cq # <<>> /\ cq[1].hint # ""

RECURSIVE Reverse(_)
Reverse(s) ==
    IF s = <<>> THEN <<>> ELSE Append(Reverse(Tail(s)), Head(s))

historyItemHtml(item) ==
    [class |-> IF item.is_correct THEN "correct" ELSE "incorrect",
     question |-> item.question,
     you |-> item.user_answer,
     correct |-> item.correct_answer]

renderHistoryInOrder(data) ==
    IF Len(data.history) # 0
    THEN [kind |-> "items",
          items |-> [i \in DOMAIN data.history |-> historyItemHtml(data.history[i])]]
    ELSE [kind |-> "no-history", items |-> <<>>]

renderHistory(data) ==
    IF Len(data.history) # 0
    THEN [kind |-> "items",
          items |-> LET r == Reverse(data.history)
                    IN  [i \in DOMAIN r |-> historyItemHtml(r[i])]]
    ELSE [kind |-> "no-history", items |-> <<>>]

updateScoreDisplays(data) ==
    [score |-> data.score, total_questions |-> data.total_questions]

\* ---------------------------------------------------------------- controls
\* A click reaches its handler only from an enabled, displayed button.  The
\* start button sits in the start panel (start-container).
StartClickable == ~disabled.startButton /\ ~hidden.startContainer
NextClickable == ~disabled.nextButton
HintClickable == ~disabled.hintButton
OptionClickable(i) == i \in DOMAIN options /\ ~options[i].disabled

\* ---------------------------------------------------------------- initial state
\* request: the load is under way; timer: its timeout is armed; errorQueued:
\* an error event of the cleared source is pending; current: started for the
\* question on display; timedOut: its timeout fired while it was current
NoImage == [request |-> "none", timer |-> FALSE, errorQueued |-> FALSE,
            current |-> FALSE, timedOut |-> FALSE]

\* The script leaves the page as its markup made it until the first event:
\* the start panel shown, the question and result panels hidden, no option
\* button; whether the markup disables the next button is left open.
Init ==
    /\ currentQuestion = <<>>
    /\ isLoading = FALSE
    /\ questionRequests = 0
    /\ checkRequests = <<>>
    /\ historyRequests = 1
    /\ disabled \in {[startButton |-> FALSE, hintButton |-> FALSE, nextButton |-> n] :
                        n \in BOOLEAN}
    /\ nextButtonText = "Next Question"
    /\ hidden = [startContainer |-> FALSE, questionContainer |-> TRUE,
                 resultContainer |-> TRUE, hintText |-> TRUE]
    /\ questionText = ""
    /\ hintText = ""
    /\ resultText = NoText
    /\ options = <<>>
    /\ scoreDisplay = [score |-> 0, total_questions |-> 0]
    /\ historyList = [kind |-> "markup", items |-> <<>>]
    /\ imageContainer = <<>>
    /\ images = [id \in 1..MaxImageLoads |-> NoImage]
    /\ server = [score |-> 0, total_questions |-> 0, checked |-> <<>>,
                 history |-> <<>>]

\* ---------------------------------------------------------------- question fetch
\* loadNextQuestion past its guard: resetUIState, showLoadingState, request
requestQuestion ==
    /\ isLoading' = TRUE
    /\ hidden' = [hidden EXCEPT !.questionContainer = FALSE,
                                !.resultContainer = TRUE,
                                !.hintText = TRUE]
    /\ disabled' = disableButtons
    /\ options' = <<>>
    /\ questionText' = "Loading question..."
    /\ resultText' = NoText
    /\ imageContainer' = showImagePlaceholder
    /\ questionRequests' = questionRequests + 1
    /\ images' = [id \in DOMAIN images |-> [images[id] EXCEPT !.current = FALSE]]
    /\ UNCHANGED <<currentQuestion, checkRequests, historyRequests,
                   nextButtonText, hintText, scoreDisplay, historyList>>

loadNextQuestionUnguarded == requestQuestion

loadNextQuestion ==
    IF isLoading
       THEN UNCHANGED <<quizVars, netVars, domVars, historyList, imageVars>>
       ELSE requestQuestion

startQuiz ==
    /\ StartClickable
    /\ loadNextQuestion

clickNext ==
    /\ NextClickable
    /\ loadNextQuestion

FreeImage(id) ==
    /\ images[id].request = "none"
    /\ ~images[id].timer
    /\ ~images[id].errorQueued

FreeImages == {id \in 1..MaxImageLoads : FreeImage(id)}

NewImage == CHOOSE id \in FreeImages : \A other \in FreeImages : id <= other

\* displayQuestion's image branch: displayImage(url) or showImagePlaceholder
displayImage(imageUrl) ==
    IF imageUrl = ""
    THEN /\ imageContainer' = showImagePlaceholder
         /\ UNCHANGED images
    ELSE /\ imageContainer' = <<Loader(NewImage)>>
         /\ images' = [images EXCEPT ![NewImage] =
                          [request |-> "pending", timer |-> TRUE, errorQueued |-> FALSE,
                           current |-> TRUE, timedOut |-> FALSE]]

\* the fetch of loadNextQuestion resolves with a question
questionOk(data) ==
    /\ questionRequests > 0
    /\ data.image # "" => FreeImages # {}
    /\ questionRequests' = questionRequests - 1
    /\ currentQuestion' = <<data>>
    /\ questionText' = data.question
    /\ displayImage(data.image)
    /\ options' = createOptionButtons(data.options)
    /\ hidden' = [startContainer |-> TRUE, questionContainer |-> FALSE,
                  resultContainer |-> TRUE, hintText |-> TRUE]
    /\ isLoading' = FALSE
    /\ disabled' = enableButtons
    /\ UNCHANGED <<checkRequests, historyRequests, nextButtonText, hintText,
                   resultText, scoreDisplay, historyList>>

showErrorState ==
    /\ resultText' = ErrorText
    /\ hidden' = [hidden EXCEPT !.resultContainer = FALSE]
    /\ nextButtonText' = "Try Again"
    /\ disabled' = enableButtons

questionFailStaysBusy(kind) ==
    /\ questionRequests > 0
    /\ questionRequests' = questionRequests - 1
    /\ showErrorState
    /\ UNCHANGED <<quizVars, checkRequests, historyRequests, questionText,
                   hintText, options, scoreDisplay, historyList, imageVars>>

\* the fetch of loadNextQuestion is rejected, is not OK or carries an error field
questionFail(kind) ==
    /\ questionRequests > 0
    /\ questionRequests' = questionRequests - 1
    /\ showErrorState
    /\ isLoading' = FALSE
    /\ UNCHANGED <<currentQuestion, checkRequests, historyRequests, questionText,
                   hintText, options, scoreDisplay, historyList, imageVars>>


\* ---------------------------------------------------------------- answer
RemoveAt(s, k) == [i \in 1..(Len(s) - 1) |-> IF i < k THEN s[i] ELSE s[i + 1]]

\* selectAnswer(selectedOption) up to the fetch
selectAnswerHandler(selectedOption) ==
    IF isLoading
       THEN UNCHANGED <<quizVars, netVars, domVars, historyList, imageVars>>
       ELSE /\ options' = disableOptions(options)
            /\ checkRequests' = Append(checkRequests, selectedOption)
            /\ UNCHANGED <<quizVars, questionRequests, historyRequests, disabled,
                           nextButtonText, hidden, questionText, hintText,
                           resultText, scoreDisplay, historyList, imageVars>>

\* click on option button i
selectAnswer(i) ==
    /\ OptionClickable(i)
    /\ selectAnswerHandler(options[i].text)

\* the fetch of selectAnswer resolves with a result
answerOk(k, data) ==
    /\ k \in DOMAIN checkRequests
    /\ historyRequests < MaxHistoryRequests
    /\ checkRequests' = RemoveAt(checkRequests, k)
    /\ scoreDisplay' = updateScoreDisplays(data)
    /\ resultText' = resultMessage(data)
    /\ options' = disableOptions(
                      highlightAnswers(
                          showResultFeedback(options, data, checkRequests[k]),
                          data.correct_answer, checkRequests[k]))
    /\ historyRequests' = historyRequests + 1
    /\ hidden' = [hidden EXCEPT !.resultContainer = FALSE,
                                !.questionContainer = FALSE]
    /\ disabled' = [disabled EXCEPT !.hintButton = TRUE, !.nextButton = FALSE]
    /\ UNCHANGED <<quizVars, questionRequests, nextButtonText, questionText,
                   hintText, historyList, imageVars>>

\* the fetch of selectAnswer is rejected, is not OK or is not JSON
answerFail(k) ==
    /\ k \in DOMAIN checkRequests
    /\ checkRequests' = RemoveAt(checkRequests, k)
    /\ showErrorState
    /\ UNCHANGED <<quizVars, questionRequests, historyRequests, questionText,
                   hintText, options, scoreDisplay, historyList, imageVars>>

\* ---------------------------------------------------------------- hint
showHint ==
    /\ HintClickable
    /\ IF ~hasHint(currentQuestion)
       THEN UNCHANGED <<quizVars, netVars, domVars, historyList, imageVars>>
       ELSE /\ hintText' = currentQuestion[1].hint
            /\ hidden' = [hidden EXCEPT !.hintText = FALSE]
            /\ disabled' = [disabled EXCEPT !.hintButton = TRUE]
            /\ UNCHANGED <<quizVars, netVars, nextButtonText, questionText,
                           resultText, options, scoreDisplay, historyList,
                           imageVars>>

\* ---------------------------------------------------------------- history
\* the fetch of loadHistory resolves with a history payload
historyOk(data) ==
    /\ historyRequests > 0
    /\ historyRequests' = historyRequests - 1
    /\ historyList' = renderHistory(data)
    /\ scoreDisplay' = updateScoreDisplays(data)
    /\ UNCHANGED <<quizVars, questionRequests, checkRequests, disabled,
                   nextButtonText, hidden, questionText, hintText, resultText,
                   options, imageVars>>

historyFailAsErrorState ==
    /\ historyRequests > 0
    /\ historyRequests' = historyRequests - 1
    /\ historyList' = [kind |-> "error-message", items |-> <<>>]
    /\ showErrorState
    /\ UNCHANGED <<quizVars, questionRequests, checkRequests, questionText,
                   hintText, options, scoreDisplay, imageVars>>

\* the fetch of loadHistory is rejected, is not OK or has no history list
historyFail ==
    /\ historyRequests > 0
    /\ historyRequests' = historyRequests - 1
    /\ historyList' = [kind |-> "error-message", items |-> <<>>]
    /\ UNCHANGED <<quizVars, questionRequests, checkRequests, domVars,
                   imageVars>>

\* ---------------------------------------------------------------- image events
NotImage == <<quizVars, netVars, domVars, historyList>>

\* img.onload (the second assignment, which replaces the first)
imgOnload(id) ==
    /\ images[id].request = "pending"
    /\ images' = [images EXCEPT ![id].request = "none", ![id].timer = FALSE]
    /\ imageContainer' = Append(RemoveChild(imageContainer, Loader(id)), Img(id))
    /\ UNCHANGED NotImage

\* img.onerror of a load that fails on its own
imgOnerror(id) ==
    /\ images[id].request = "pending"
    /\ images' = [images EXCEPT ![id].request = "none", ![id].timer = FALSE]
    /\ imageContainer' = showImagePlaceholder
    /\ UNCHANGED NotImage

\* the setTimeout callback; img.src = '' ends the request and, depending on
\* the browser, queues an error event on the image
imgTimeout(id) ==
    /\ images[id].timer
    /\ UNCHANGED NotImage
    /\ IF Contains(imageContainer, Loader(id))
       THEN /\ imageContainer' = showImagePlaceholder
            /\ \E queued \in BOOLEAN :
                  images' = [images EXCEPT ![id].request = "none",
                                           ![id].timer = FALSE,
                                           ![id].errorQueued = queued,
                                           ![id].timedOut = images[id].current]
       ELSE /\ images' = [images EXCEPT ![id].timer = FALSE,
                                        ![id].timedOut = images[id].current]
            /\ UNCHANGED imageContainer

\* img.onerror fired by img.src = ''
imgOnerrorAbandoned(id) ==
    /\ images[id].errorQueued
    /\ images' = [images EXCEPT ![id].errorQueued = FALSE]
    /\ imageContainer' = showImagePlaceholder
    /\ UNCHANGED NotImage

\* ---------------------------------------------------------------- specifications
\* The quiz handlers write the image container and the history panel and
\* never read them, so the concerns are explored separately: each
\* specification runs the same handlers and differs in the payloads the
\* server returns.  Where the payloads are left open the server's own state
\* plays no part and stays as it is.
NoImageQuestions == {q \in Questions : q.image = ""}
EmptyHistoryData == {d \in HistoryData : d.history = <<>>}

OneQuestion == {q \in Questions : q.options = <<"A">> /\ q.hint = ""}
OneCheckData ==
    {d \in CheckData : d.correct_answer = "A" /\ d.is_correct /\ d.total_questions = 0}

\* quiz flow: every question without image, every answer result
Next ==
    \/ startQuiz /\ UNCHANGED server
    \/ clickNext /\ UNCHANGED server
    \/ \E data \in NoImageQuestions : questionOk(data) /\ UNCHANGED server
    \/ \E kind \in FailureKinds : questionFail(kind) /\ UNCHANGED server
    \/ \E i \in 1..MaxOptions : selectAnswer(i) /\ UNCHANGED server
    \/ \E k \in DOMAIN checkRequests, data \in CheckData : answerOk(k, data) /\ UNCHANGED server
    \/ \E k \in DOMAIN checkRequests : answerFail(k) /\ UNCHANGED server
    \/ showHint /\ UNCHANGED server
    \/ \E data \in EmptyHistoryData : historyOk(data) /\ UNCHANGED server
    \/ historyFail /\ UNCHANGED server

Spec == Init /\ [][Next]_vars

\* history panel: every history payload
NextHistory ==
    \/ startQuiz /\ UNCHANGED server
    \/ clickNext /\ UNCHANGED server
    \/ \E data \in {q \in OneQuestion : q.image = ""} : questionOk(data) /\ UNCHANGED server
    \/ \E kind \in FailureKinds : questionFail(kind) /\ UNCHANGED server
    \/ \E i \in 1..MaxOptions : selectAnswer(i) /\ UNCHANGED server
    \/ \E k \in DOMAIN checkRequests, data \in OneCheckData : answerOk(k, data) /\ UNCHANGED server
    \/ \E k \in DOMAIN checkRequests : answerFail(k) /\ UNCHANGED server
    \/ showHint /\ UNCHANGED server
    \/ \E data \in HistoryData : historyOk(data) /\ UNCHANGED server
    \/ historyFail /\ UNCHANGED server

SpecHistory == Init /\ [][NextHistory]_vars

\* image container: questions with and without image, every image event
NextImage ==
    \/ startQuiz /\ UNCHANGED server
    \/ clickNext /\ UNCHANGED server
    \/ \E data \in OneQuestion : questionOk(data) /\ UNCHANGED server
    \/ \E kind \in FailureKinds : questionFail(kind) /\ UNCHANGED server
    \/ \E i \in 1..MaxOptions : selectAnswer(i) /\ UNCHANGED server
    \/ \E k \in DOMAIN checkRequests, data \in OneCheckData : answerOk(k, data) /\ UNCHANGED server
    \/ \E k \in DOMAIN checkRequests : answerFail(k) /\ UNCHANGED server
    \/ showHint /\ UNCHANGED server
    \/ \E data \in {d \in EmptyHistoryData : d.total_questions = 0} : historyOk(data) /\ UNCHANGED server
    \/ historyFail /\ UNCHANGED server
    \/ \E id \in 1..MaxImageLoads : imgOnload(id) /\ UNCHANGED server
    \/ \E id \in 1..MaxImageLoads : imgOnerror(id) /\ UNCHANGED server
    \/ \E id \in 1..MaxImageLoads : imgTimeout(id) /\ UNCHANGED server
    \/ \E id \in 1..MaxImageLoads : imgOnerrorAbandoned(id) /\ UNCHANGED server

SpecImage == Init /\ [][NextImage]_vars

\* events dispatched to the controls by script reach the handlers whatever
\* the disabled state of the control; an option's handler is a closure over
\* its text and outlives the removal of its button
dispatchStart ==
    IF isLoading
       THEN UNCHANGED <<quizVars, netVars, domVars, historyList, imageVars>>
       ELSE loadNextQuestion

dispatchNext == loadNextQuestion

dispatchSelect(option) ==
    /\ Len(checkRequests) < MaxDispatched
    /\ selectAnswerHandler(option)

NextDispatch ==
    \/ dispatchStart /\ UNCHANGED server
    \/ dispatchNext /\ UNCHANGED server
    \/ \E option \in OptionTexts : dispatchSelect(option) /\ UNCHANGED server
    \/ \E data \in {q \in OneQuestion : q.image = ""} : questionOk(data) /\ UNCHANGED server
    \/ \E kind \in FailureKinds : questionFail(kind) /\ UNCHANGED server
    \/ \E k \in DOMAIN checkRequests, data \in OneCheckData : answerOk(k, data) /\ UNCHANGED server
    \/ \E k \in DOMAIN checkRequests : answerFail(k) /\ UNCHANGED server
    \/ showHint /\ UNCHANGED server
    \/ \E data \in {d \in EmptyHistoryData : d.total_questions = 0} : historyOk(data) /\ UNCHANGED server
    \/ historyFail /\ UNCHANGED server

SpecDispatch == Init /\ [][NextDispatch]_vars

\* ---------------------------------------------------------------- server
\* The server keeps the session's score: it handles a request at some moment
\* between its issue and the arrival of its response, an answer raises
\* total_questions (and score when correct), and a response carries the
\* values of the moment it was produced.  Responses of different requests
\* arrive in any order.
serverCheckAnswer ==
    /\ Len(server.checked) < Len(checkRequests)
    /\ server.total_questions < MaxTotal
    /\ LET answer == checkRequests[Len(server.checked) + 1]
           correct == (answer = "A")
           score == IF correct THEN server.score + 1 ELSE server.score
           total == server.total_questions + 1
       IN server' = [server EXCEPT
                        !.score = score,
                        !.total_questions = total,
                        !.checked = Append(@, [is_correct |-> correct,
                                               correct_answer |-> "A",
                                               score |-> score,
                                               total_questions |-> total])]
    /\ UNCHANGED <<quizVars, netVars, domVars, historyList, imageVars>>

serverGetHistory ==
    /\ Len(server.history) < historyRequests
    /\ server' = [server EXCEPT
                     !.history = Append(@, [history |-> <<>>,
                                            score |-> server.score,
                                            total_questions |-> server.total_questions])]
    /\ UNCHANGED <<quizVars, netVars, domVars, historyList, imageVars>>

\* the response of the oldest POST /check_answer arrives
deliverAnswer ==
    /\ server.checked # <<>>
    /\ answerOk(1, Head(server.checked))
    /\ server' = [server EXCEPT !.checked = Tail(@)]

\* the response of some GET /get_history arrives
deliverHistory(j) ==
    /\ j \in DOMAIN server.history
    /\ historyOk(server.history[j])
    /\ server' = [server EXCEPT !.history = RemoveAt(@, j)]

\* score display: the server's values, responses in any order
NextScore ==
    \/ startQuiz /\ UNCHANGED server
    \/ clickNext /\ UNCHANGED server
    \/ \E data \in {q \in OneQuestion : q.image = ""} : questionOk(data) /\ UNCHANGED server
    \/ \E kind \in FailureKinds : questionFail(kind) /\ UNCHANGED server
    \/ \E i \in 1..MaxOptions : selectAnswer(i) /\ UNCHANGED server
    \/ serverCheckAnswer
    \/ deliverAnswer
    \/ server.checked = <<>> /\ answerFail(1) /\ UNCHANGED server
    \/ showHint /\ UNCHANGED server
    \/ serverGetHistory
    \/ \E j \in 1..MaxHistoryRequests : deliverHistory(j)
    \/ Len(server.history) < historyRequests /\ historyFail /\ UNCHANGED server

SpecScore == Init /\ [][NextScore]_vars

\* ---------------------------------------------------------------- properties
NoRequestInFlight == questionRequests = 0 /\ checkRequests = <<>>

CanContinue ==
    \/ StartClickable
    \/ NextClickable
    \/ \E i \in DOMAIN options : OptionClickable(i)

\* the result of a submission is on display
ResultApplied == resultText.msg \in {CorrectMsg, IncorrectMsg}

Marked(class) == {i \in DOMAIN options : class \in options[i].classes}

QuestionFailStep == \E kind \in FailureKinds : questionFail(kind)
AnswerOkStep == \E k \in DOMAIN checkRequests, data \in CheckData : answerOk(k, data)
AnswerFailStep == \E k \in DOMAIN checkRequests : answerFail(k)

C2_NextEnabledAfterFetchFailure ==
    [][QuestionFailStep => (resultText' = ErrorText /\ ~disabled'.nextButton)]_vars

\* C3: whenever no fetch and no submission is in flight, some displayed and
\* enabled control starts a question fetch or submits an answer.
C3_QuiescentCanContinue == NoRequestInFlight => CanContinue

\* C4: selecting an answer disables every option at once; when the submission
\* has settled the "next" control is enabled; and "next" goes from disabled to
\* enabled only then, once per question cycle.
C4_SelectEnablesNextOnce ==
    [][ /\ \A i \in 1..MaxOptions :
              (selectAnswer(i) /\ ~isLoading) =>
                  \A j \in DOMAIN options' : options'[j].disabled
        /\ (AnswerOkStep \/ AnswerFailStep) => ~disabled'.nextButton
        /\ (disabled.nextButton /\ ~disabled'.nextButton) =>
              (AnswerOkStep \/ AnswerFailStep)
      ]_vars

\* C5 as claimed: once an answer result is applied, exactly one option carries
\* the correct-option mark.
C5_ExactlyOneCorrectOption ==
    ResultApplied => Cardinality(Marked("correct-option")) = 1

\* C5 as amended: once an answer result is applied, the options carrying the
\* correct-option mark are exactly those whose text is the response's
\* correct_answer (one option when that text occurs once among the options).
C5_CorrectOptionsAreTheCorrectAnswer ==
    ResultApplied =>
        Marked("correct-option") =
            {i \in DOMAIN options : options[i].text = resultText.answer}

\* a wrong pick among two different options: one option is marked correct
C5_Witness ==
    /\ resultText.msg = IncorrectMsg
    /\ Len(options) = 2
    /\ Cardinality(Marked("correct-option")) = 1
    /\ Cardinality(Marked("incorrect-option")) = 1

\* C6: a displayed question's hint is revealed at most once: showHint reveals
\* only a hint that is still hidden, and once the hint is revealed the hint
\* control stays disabled until a question is displayed again.
C6_HintRevealedOnce ==
    [][ /\ (showHint /\ currentQuestion # <<>> /\ currentQuestion[1].hint # "") =>
              hidden.hintText
        /\ (~hidden.hintText /\ disabled.hintButton
                /\ ~(\E data \in Questions : questionOk(data))) =>
              disabled'.hintButton
      ]_vars

\* C7: showHint without a current question, or with one whose hint is empty,
\* changes nothing.
C7_ShowHintWithoutHintIsNoop ==
    [][(showHint /\ (currentQuestion = <<>> \/ currentQuestion[1].hint = ""))
           => UNCHANGED vars]_vars

\* the hint control is usable on a displayed question that has no hint
C7_Witness ==
    /\ HintClickable
    /\ currentQuestion # <<>>
    /\ currentQuestion[1].hint = ""
    /\ options # <<>>
    /\ ~isLoading

\* the marks an applied result must leave, for the verdict `data` on the
\* option text `chosen`
MarksFollowVerdict(data, chosen, opts, text) ==
    /\ ~data.is_correct =>
          /\ text = [msg |-> IncorrectMsg, answer |-> data.correct_answer]
          /\ \A i \in DOMAIN opts :
                /\ opts[i].text = data.correct_answer =>
                      "correct-option" \in opts[i].classes
                /\ opts[i].text = chosen => "incorrect-option" \in opts[i].classes
    /\ data.is_correct =>
          \A i \in DOMAIN opts :
             /\ "correct-option" \in opts[i].classes <=> opts[i].text = chosen
             /\ "incorrect-option" \notin opts[i].classes
    /\ \A i \in DOMAIN opts :
          ~({"correct-option", "incorrect-option"} \subseteq opts[i].classes)

C9_HistoryReversed ==
    [][\A data \in HistoryData :
          (scoreDisplay' = updateScoreDisplays(data) /\ historyOk(data)) =>
              LET n == Len(data.history)
              IN  IF n = 0
                  THEN historyList' = [kind |-> "no-history", items |-> <<>>]
                  ELSE /\ historyList'.kind = "items"
                       /\ Len(historyList'.items) = n
                       /\ \A i \in 1..n :
                             historyList'.items[n + 1 - i] =
                                 historyItemHtml(data.history[i])]_vars

\* two different entries are rendered
C9_Witness ==
    /\ historyList.kind = "items"
    /\ Len(historyList.items) = 2
    /\ historyList.items[1] # historyList.items[2]

\* C10: when the timeout of the displayed question's image load fires, the
\* container then shows the placeholder and no spinner, and the image of a
\* load that timed out this way is never in the container afterwards.
C10_TimeoutAbandonsLoad ==
    [][\A id \in 1..MaxImageLoads :
          /\ (imgTimeout(id) /\ images[id].current) =>
                /\ Contains(imageContainer', Placeholder)
                /\ \A other \in 1..MaxImageLoads :
                      ~Contains(imageContainer', Loader(other))
          /\ images[id].timedOut => ~Contains(imageContainer', Img(id))
      ]_vars

\* the page is as its markup made it: no question fetch has started yet
NoFetchYet == currentQuestion = <<>> /\ questionText = "" /\ ~isLoading

AllOptionsDisabled(opts) == \A j \in DOMAIN opts : opts[j].disabled

C12_OneSubmissionPerQuestion ==
    [][ /\ Len(checkRequests') > Len(checkRequests) =>
              /\ options # <<>>
              /\ \A j \in DOMAIN options : ~options[j].disabled
              /\ options' # <<>>
              /\ AllOptionsDisabled(options')
        /\ (options # <<>> /\ AllOptionsDisabled(options)
                /\ ~(\E data \in Questions : questionOk(data))) =>
              AllOptionsDisabled(options')
      ]_vars

\* a failed submission has left both options of the question disabled
C12_Witness ==
    /\ resultText = ErrorText
    /\ Len(options) = 2
    /\ AllOptionsDisabled(options)
    /\ checkRequests = <<>>

\* C13: the busy flag is set exactly while a GET /get_question is in flight;
\* it is clear again when the request has settled, either way.
C13_BusyIffFetching == isLoading <=> questionRequests > 0

\* a first fetch has failed and the flag is clear
C13_Witness ==
    /\ ~isLoading
    /\ questionRequests = 0
    /\ questionText = "Loading question..."
    /\ resultText = ErrorText

\* C14: start, next or an answer selection reaching its handler while the
\* busy flag is set changes nothing: no request, no change of the current
\* question, the flag, the texts or any control.
C14_BusyTriggersAreNoops ==
    [][ (isLoading /\ (\/ dispatchStart
                       \/ dispatchNext
                       \/ \E option \in OptionTexts : selectAnswerHandler(option)))
            => UNCHANGED vars ]_vars

\* a fetch is in flight while a submission made before it is still pending:
\* the handlers can only have been reached by dispatched events
C14_Witness ==
    /\ isLoading
    /\ currentQuestion # <<>>
    /\ checkRequests # <<>>

\* C15: a failed GET /get_history puts the error message in the history
\* panel and changes nothing else: not the current question, the busy flag,
\* the score, the result text, the other texts or any control.
C15_HistoryFailureOnlyTouchesPanel ==
    [][ historyFail =>
            /\ historyList' = [kind |-> "error-message", items |-> <<>>]
            /\ UNCHANGED <<quizVars, questionRequests, checkRequests, domVars,
                           imageVars>> ]_vars

\* the history load issued after an answer has failed; the verdict and the
\* score of that answer are still on display and "next" is still enabled
C15_Witness ==
    /\ historyList.kind = "error-message"
    /\ historyRequests = 0
    /\ ResultApplied
    /\ scoreDisplay.total_questions = 1
    /\ ~disabled.nextButton

\* C16: an image in the container is the image of the question on display,
\* and a load, error or timeout event of a load started for an earlier
\* question leaves the container as it is.
C16_StaleImageEventsIgnored ==
    [][\A id \in 1..MaxImageLoads :
          /\ Contains(imageContainer', Img(id)) => images'[id].current
          /\ (~images[id].current
                /\ (imgOnload(id) \/ imgOnerror(id) \/ imgTimeout(id)
                        \/ imgOnerrorAbandoned(id)))
               => UNCHANGED imageContainer
      ]_vars

AllSettled == historyRequests = 0 /\ checkRequests = <<>>

\* C17: the displayed total never goes back, and once every /check_answer
\* and /get_history request has settled the display shows the server's
\* latest values.
C17_ScoreNeverReverts ==
    [][ /\ scoreDisplay'.total_questions >= scoreDisplay.total_questions
        /\ AllSettled' =>
              scoreDisplay' = [score |-> server'.score,
                               total_questions |-> server'.total_questions]
      ]_vars

\* C18: while the hint text is visible, a question is on display with its
\* options and the text is the hint of that question.
C18_VisibleHintIsOfDisplayedQuestion ==
    ~hidden.hintText =>
        /\ currentQuestion # <<>>
        /\ questionText = currentQuestion[1].question
        /\ Len(options) = Len(currentQuestion[1].options)
        /\ hintText = currentQuestion[1].hint

\* C19: the text "Loading question..." is on display only while a
\* GET /get_question is in flight.
C19_PlaceholderOnlyWhileFetching ==
    (questionText = "Loading question..." /\ ~hidden.questionContainer) =>
        questionRequests > 0

====
